---- MODULE Spec2Model ----
(***************************************************************************)
(* Model of the personal-finance ledger of finances.py: the JSON document  *)
(* (transactions + limits), add_transaction, calculate_balance,            *)
(* generate_report and set_limit, and the handlers of the buttons of       *)
(* create_gui.                                                             *)
(*                                                                         *)
(* A category or a note is the sequence of the Unicode code points of its  *)
(* characters (<<97>> is "a", <<1103>> the Cyrillic letter ya), compared as *)
(* Python compares str: lexicographically, a proper prefix first.  The     *)
(* empty text is <<>>.  A stored date is the sequence of the fields of its *)
(* iso text: day, second of the day, and the microsecond when it is there. *)
(* Cyrillic literals of the source are transliterated:                     *)
(*   "списание" -> "spisanie", "начисление" -> "nachislenie",              *)
(*   "дата" -> "data", "сумма" -> "summa", "категория" -> "kategoriya".    *)
(***************************************************************************)
EXTENDS Integers, Sequences, FiniteSets, TLC

VARIABLES
    file,       \* finances.json: <<>> when the file does not exist, <<content>> otherwise
    clock,      \* the last instant datetime.now() returned
    out,        \* what the last call returned, raised or showed
    addedSum,   \* history: sum of the amounts of the add calls that succeeded
    pc,         \* two interleaved callers: where each is in its call
    call,       \* two interleaved callers: the call each is making or made last
    overlap,    \* history: the latest load happened while the other caller was between load and save
    lastSaver   \* history: the caller that saved last (0: none yet)

vars == <<file, clock, out, addedSum, pc, call, overlap, lastSaver>>
concVars == <<pc, call, overlap, lastSaver>>

-----------------------------------------------------------------------------
(* Bounds of the model *)

MaxTx == 2               \* transactions on file
MaxReportClock == 4      \* instants of the clock in SpecReport
MicrosPerSecond == 2     \* microseconds in a second (scaled down)
SecondsPerDay == 2       \* seconds in a day (scaled down)

TicksPerDay == SecondsPerDay * MicrosPerSecond

\* inputs of Spec and SpecConc; the instants datetime.now() returns there are
\* the start of a second and an instant with a fraction
Instants == {0, 1}
Amounts == {-1, 0, 1}
Categories == {<<>>, <<1103>>}
Notes == {<<97>>}
LimitValues == {-1, 0, 1}
\* inputs of SpecReport
ReportAmounts == {1, 2}
ReportNotes == {<<>>, <<97>>}
SortFields == {"date", "amount", "category", "note", "data", "summa", "kategoriya"}
\* the text of the amount entry: <<>> is text float() rejects, <<a>> the text of a
AmountEntries == {<<>>} \cup {<<a>> : a \in Amounts}
\* the text of the limit entry, likewise
LimitEntries == {<<>>} \cup {<<l>> : l \in LimitValues}

Callers == {1, 2}

-----------------------------------------------------------------------------
(* Text and time *)

RECURSIVE StrLess(_, _)
StrLess(a, b) ==
    IF b = <<>> THEN FALSE
    ELSE IF a = <<>> THEN TRUE
    ELSE IF Head(a) # Head(b) THEN Head(a) < Head(b)
    ELSE StrLess(Tail(a), Tail(b))

\* the instants datetime.now() can return once it has returned t
Later(t) == {now \in Instants : now >= t}

\* datetime.isoformat(): date, time of day, and ".ffffff" only when microsecond # 0
isoformat(t) ==
    <<t \div TicksPerDay, (t % TicksPerDay) \div MicrosPerSecond>>
        \o (IF t % MicrosPerSecond = 0 THEN <<>> ELSE <<t % MicrosPerSecond>>)

\* datetime.strptime(s, "%Y-%m-%dT%H:%M:%S.%f"): the fraction is required
strptime_iso(s) ==
    IF Len(s) = 3
    THEN [ok |-> TRUE, t |-> s[1] * TicksPerDay + s[2] * MicrosPerSecond + s[3]]
    ELSE [ok |-> FALSE, t |-> 0]

\* A date bound of the report: None, the empty text "" (what an empty entry of
\* the form gives), text that is no DD.MM.YYYY date, or the text of calendar day d.
NoDate == [kind |-> "none", day |-> 0]
EmptyText == [kind |-> "empty", day |-> 0]
Malformed == [kind |-> "malformed", day |-> 0]
DateText(d) == [kind |-> "date", day |-> d]

\* datetime.strptime(s, "%d.%m.%Y"): midnight of that day
strptime_dmy(b) ==
    IF b.kind = "date" THEN [ok |-> TRUE, t |-> b.day * TicksPerDay]
    ELSE [ok |-> FALSE, t |-> 0]

-----------------------------------------------------------------------------
(* The document store *)

EmptyData == [transactions |-> <<>>, limits |-> <<>>]

\* number of characters of repr(float(a)) for an integer a: sign, digits, ".0"
RECURSIVE Digits(_)
Digits(n) == IF n < 10 THEN 1 ELSE 1 + Digits(n \div 10)
FloatLen(a) == (IF a < 0 THEN 1 + Digits(-a) ELSE Digits(a)) + 2

\* characters json.dump (ensure_ascii) writes for the character of code point c:
\* itself from " " to "~", two for the quote, the backslash and \b \t \n \f \r,
\* a \uXXXX escape for the rest, two of them beyond the basic plane
EscapeLen(c) ==
    IF c \in {34, 92} THEN 2
    ELSE IF c \in 32..126 THEN 1
    ELSE IF c \in {8, 9, 10, 12, 13} THEN 2
    ELSE IF c <= 65535 THEN 6
    ELSE 12

\* characters written for a text, its quotes left out
RECURSIVE JsonStrLen(_)
JsonStrLen(s) == IF s = <<>> THEN 0 ELSE EscapeLen(Head(s)) + JsonStrLen(Tail(s))

\* characters of the values of one transaction in the JSON text: the date has
\* 19 characters, or 26 with the fraction; each Cyrillic letter of the type is
\* written as a \uXXXX escape (8 letters in "списание", 10 in "начисление")
TxValuesLen(t) ==
    FloatLen(t.amount) + JsonStrLen(t.category) + JsonStrLen(t.note)
        + (IF Len(t.date) = 3 THEN 26 ELSE 19)
        + (IF t.type = "spisanie" THEN 48 ELSE 60)

RECURSIVE SumTxValuesLen(_)
SumTxValuesLen(ts) ==
    IF ts = <<>> THEN 0 ELSE TxValuesLen(Head(ts)) + SumTxValuesLen(Tail(ts))

RECURSIVE SumLimitLen(_, _)
SumLimitLen(limits, keys) ==
    IF keys = {} THEN 0
    ELSE LET k == CHOOSE x \in keys : TRUE IN
         JsonStrLen(k) + FloatLen(limits[k]) + SumLimitLen(limits, keys \ {k})

\* number of characters json.dump(data, file, indent=4) writes
JsonLen(data) ==
    44
    + (IF data.transactions = <<>> THEN 0
       ELSE 4 + 144 * Len(data.transactions) + SumTxValuesLen(data.transactions))
    + (IF DOMAIN data.limits = {} THEN 0
       ELSE 4 + 14 * Cardinality(DOMAIN data.limits)
              + SumLimitLen(data.limits, DOMAIN data.limits))

\* The content of the file: the JSON text of a document, or text json.load
\* rejects (nothing yet after open(..., "w"), or a document followed by the rest
\* of a longer text); len is its number of characters.
Whole(data) == [valid |-> TRUE, data |-> data, len |-> JsonLen(data)]
Torn(n) == [valid |-> FALSE, data |-> EmptyData, len |-> n]

\* open(DATA_FILE, "w"): the file is created or cut to nothing
open_w == <<Torn(0)>>

\* json.dump and the close of a file opened by open_w, when f is the file by
\* then: the text goes to the start of the file and what lies beyond it stays
\* (the document is small enough to be flushed in one write)
write_file(f, data) ==
    IF JsonLen(data) >= f[1].len THEN <<Whole(data)>> ELSE <<Torn(f[1].len)>>

\* json.load raises JSONDecodeError (a ValueError)
load_fails(f) == f # <<>> /\ ~f[1].valid

load_data(f) == IF f = <<>> THEN EmptyData ELSE f[1].data

\* save_data with nothing between its open and its close
save_data(data) == write_file(open_w, data)

\* a call that stops at load_data with JSONDecodeError
decode_error(op) ==
    /\ out' = [op |-> op, status |-> "JSONDecodeError"]
    /\ UNCHANGED <<file, clock, addedSum, pc, call, overlap, lastSaver>>

\* data["limits"].get(category, None) is not None
HasLimit(limits, category) == category \in DOMAIN limits

\* variant: data["limits"] = {category: value}
PutLimit_replacing(limits, category, value) == [c \in {category} |-> value]

\* data["limits"][category] = value
PutLimit(limits, category, value) ==
    [c \in (DOMAIN limits) \cup {category} |->
        IF c = category THEN value ELSE limits[c]]

RECURSIVE SumAmounts(_)
SumAmounts(ts) ==
    IF ts = <<>> THEN 0 ELSE Head(ts).amount + SumAmounts(Tail(ts))

SelectCategory(ts, category) == SelectSeq(ts, LAMBDA t : t.category = category)

-----------------------------------------------------------------------------
(* add_transaction *)

\* variant: zero counted as a debit
transaction_type_nonpositive(amount) == IF amount <= 0 THEN "spisanie" ELSE "nachislenie"

transaction_type(amount) == IF amount < 0 THEN "spisanie" ELSE "nachislenie"

new_transaction(amount, category, note, now) ==
    [amount |-> amount, category |-> category, note |-> note,
     date |-> isoformat(now), type |-> transaction_type(amount)]

\* variant: "if category_limit:", which takes a limit of 0 for no limit
limit_exceeded_truthy(data, amount, category) ==
    /\ HasLimit(data.limits, category)
    /\ data.limits[category] # 0
    /\ SumAmounts(SelectCategory(data.transactions, category)) + amount
          > data.limits[category]

\* the limit check: a warning box is shown exactly when this holds
limit_exceeded(data, amount, category) ==
    /\ HasLimit(data.limits, category)
    /\ SumAmounts(SelectCategory(data.transactions, category)) + amount
          > data.limits[category]

\* the data add_transaction saves
appended(data, amount, category, note, now) ==
    [data EXCEPT !.transactions =
        Append(@, new_transaction(amount, category, note, now))]

add_out(data, amount, category, note, now) ==
    [op |-> "add", status |-> "ok", amount |-> amount, category |-> category,
     note |-> note, now |-> now, type |-> transaction_type(amount),
     warned |-> limit_exceeded(data, amount, category)]

\* One call of add_transaction by a single caller: load, check, append, save.
add_transaction(amount, category, note, now) ==
    LET data == load_data(file) IN
    IF load_fails(file) THEN decode_error("add") ELSE
    /\ Len(data.transactions) < MaxTx
    /\ file' = save_data(appended(data, amount, category, note, now))
    /\ clock' = now
    /\ out' = add_out(data, amount, category, note, now)
    /\ addedSum' = addedSum + amount
    /\ UNCHANGED concVars

\* The "add" button: float() of the amount entry, the empty-category check,
\* then add_transaction; a ValueError is caught and shown in an error box.
handle_add_transaction(entry, category, note, now) ==
    IF entry = <<>> \/ category = <<>> \/ load_fails(file)
    THEN /\ out' = [op |-> "handle_add", status |-> "ValueError",
                    entry |-> entry, category |-> category, note |-> note]
         /\ UNCHANGED <<file, clock, addedSum, concVars>>
    ELSE add_transaction(entry[1], category, note, now)

-----------------------------------------------------------------------------
(* calculate_balance *)

\* variant: only the credits are summed
balance_credits(data) ==
    SumAmounts(SelectSeq(data.transactions, LAMBDA t : t.amount >= 0))

balance(data) == SumAmounts(data.transactions)

calculate_balance ==
    IF load_fails(file) THEN decode_error("balance") ELSE
    /\ out' = [op |-> "balance", status |-> "ok", value |-> balance(load_data(file))]
    /\ UNCHANGED <<file, clock, addedSum, concVars>>

-----------------------------------------------------------------------------
(* set_limit *)

\* variant: no sign check
set_limit_unchecked(category, limit) ==
    LET data == load_data(file) IN
    /\ file' = save_data([data EXCEPT !.limits = PutLimit(@, category, limit)])
    /\ out' = [op |-> "set_limit", status |-> "ok",
               category |-> category, limit |-> limit]
    /\ UNCHANGED <<clock, addedSum, concVars>>

set_limit(category, limit) ==
    IF limit < 0
    THEN /\ out' = [op |-> "set_limit", status |-> "ValueError",
                    category |-> category, limit |-> limit]
         /\ UNCHANGED <<file, clock, addedSum, concVars>>
    ELSE IF load_fails(file) THEN decode_error("set_limit")
    ELSE LET data == load_data(file) IN
         /\ file' = save_data([data EXCEPT !.limits = PutLimit(@, category, limit)])
         /\ out' = [op |-> "set_limit", status |-> "ok",
                    category |-> category, limit |-> limit]
         /\ UNCHANGED <<clock, addedSum, concVars>>

\* The "set" button: float() of the limit entry, the empty-category check, then
\* set_limit; a ValueError (JSONDecodeError is one) is caught and shown in an
\* error box.
handle_set_limit(category, entry) ==
    IF entry = <<>> \/ category = <<>> \/ entry[1] < 0 \/ load_fails(file)
    THEN /\ out' = [op |-> "handle_set_limit", status |-> "ValueError",
                    category |-> category, entry |-> entry]
         /\ UNCHANGED <<file, clock, addedSum, concVars>>
    ELSE set_limit(category, entry[1])

-----------------------------------------------------------------------------
(* generate_report *)

\* the key the if/elif chain picks: it tests the Russian words only
sort_key(sort_by) ==
    IF sort_by = "data" THEN "date"
    ELSE IF sort_by = "summa" THEN "amount"
    ELSE IF sort_by = "kategoriya" THEN "category"
    ELSE "note"

\* key(a) < key(b)
KeyLess(k, a, b) ==
    IF k = "date" THEN StrLess(a.date, b.date)
    ELSE IF k = "amount" THEN a.amount < b.amount
    ELSE IF k = "category" THEN StrLess(a.category, b.category)
    ELSE StrLess(a.note, b.note)

\* x goes before e in the result
Before(k, reverse, x, e) == IF reverse THEN KeyLess(k, e, x) ELSE KeyLess(k, x, e)

RECURSIVE Insert(_, _, _, _)
Insert(k, reverse, s, x) ==
    IF s = <<>> THEN <<x>>
    ELSE IF Before(k, reverse, x, Head(s)) THEN <<x>> \o s
    ELSE <<Head(s)>> \o Insert(k, reverse, Tail(s), x)

\* sorted(transactions, key=key, reverse=reverse): stable in both directions
RECURSIVE sorted(_, _, _)
sorted(ts, k, reverse) ==
    IF ts = <<>> THEN <<>>
    ELSE Insert(k, reverse, sorted(SubSeq(ts, 1, Len(ts) - 1), k, reverse), ts[Len(ts)])

\* "if start_date" / "if end_date": None and "" are falsy
truthy(b) == b.kind \in {"malformed", "date"}

\* One side of the filter condition, "bound is None or strptime(t["date"]) <cmp> bound":
\* the stored date is parsed first (ValueError), then compared with the bound, which
\* is a datetime, or still the text "" (TypeError: datetime against str).
side(t, b, lower) ==
    IF b.kind = "none" THEN "true"
    ELSE IF ~strptime_iso(t.date).ok THEN "ValueError"
    ELSE IF b.kind = "empty" THEN "TypeError"
    ELSE IF lower
    THEN (IF strptime_iso(t.date).t >= strptime_dmy(b).t THEN "true" ELSE "false")
    ELSE (IF strptime_iso(t.date).t <= strptime_dmy(b).t THEN "true" ELSE "false")

\* The filter condition of one transaction: "keep", "drop", or the exception it
\* raises; the end side is evaluated only when the start side is true.
tx_outcome(t, start, endd) ==
    LET first == side(t, start, TRUE) IN
    IF first \in {"ValueError", "TypeError"} THEN first
    ELSE IF first = "false" THEN "drop"
    ELSE LET second == side(t, endd, FALSE) IN
         IF second \in {"ValueError", "TypeError"} THEN second
         ELSE IF second = "true" THEN "keep" ELSE "drop"

\* the first exception the list comprehension raises, going through ts in order
RECURSIVE first_error(_, _, _)
first_error(ts, start, endd) ==
    IF ts = <<>> THEN "none"
    ELSE IF tx_outcome(Head(ts), start, endd) \in {"ValueError", "TypeError"}
    THEN tx_outcome(Head(ts), start, endd)
    ELSE first_error(Tail(ts), start, endd)

\* The try block: "ok", "ValueError" (caught: the error box) or "TypeError" (not caught).
\* The bounds are parsed first, then the transactions are filtered.
filter_outcome(ts, start, endd) ==
    IF start.kind = "malformed" \/ endd.kind = "malformed" THEN "ValueError"
    ELSE IF first_error(ts, start, endd) # "none" THEN first_error(ts, start, endd)
    ELSE "ok"

\* The rendering loop: each row starts with the parse of its date, so the rows
\* drawn are those before the first date that does not parse.
RECURSIVE drawn(_)
drawn(rows) ==
    IF rows = <<>> \/ ~strptime_iso(Head(rows).date).ok THEN <<>>
    ELSE <<Head(rows)>> \o drawn(Tail(rows))

\* What generate_report does with the data: whether the report window is
\* created, the rows drawn in it, and the error. A ValueError of the rendering
\* loop is raised with the window open and the earlier rows drawn.
report(data, sort_by, reverse, start, endd, category) ==
    LET ts == data.transactions
        dated == truthy(start) \/ truthy(endd)
        byDate == IF dated
                  THEN SelectSeq(ts, LAMBDA t : tx_outcome(t, start, endd) = "keep")
                  ELSE ts
        byCat == IF category # <<>>
                 THEN SelectSeq(byDate, LAMBDA t : t.category = category)
                 ELSE byDate
        rows == sorted(byCat, sort_key(sort_by), reverse)
    IN  IF dated /\ filter_outcome(ts, start, endd) = "ValueError"
        THEN [status |-> "invalid_date_format", window |-> FALSE, rows |-> <<>>]
        ELSE IF dated /\ filter_outcome(ts, start, endd) = "TypeError"
        THEN [status |-> "TypeError", window |-> FALSE, rows |-> <<>>]
        ELSE IF drawn(rows) # rows
        THEN [status |-> "ValueError", window |-> TRUE, rows |-> drawn(rows)]
        ELSE [status |-> "ok", window |-> TRUE, rows |-> rows]

generate_report(sort_by, reverse, start, endd, category) ==
    IF load_fails(file) THEN decode_error("report") ELSE
    LET r == report(load_data(file), sort_by, reverse, start, endd, category) IN
    /\ out' = [op |-> "report", status |-> r.status, window |-> r.window,
               rows |-> r.rows,
               sort_by |-> sort_by, reverse |-> reverse,
               start |-> start, endd |-> endd, category |-> category]
    /\ UNCHANGED <<file, clock, addedSum, concVars>>

\* The "report" button: the texts of the two date entries and the values of the
\* comboboxes go to generate_report as they are, an empty entry as "".
handle_generate_report(sort_by, reverse, start, endd, category) ==
    generate_report(sort_by, reverse, start, endd, category)

-----------------------------------------------------------------------------
(* Spec: a single caller, each call running from its load to its save *)

NoOut == [op |-> "none", status |-> "ok"]

Init ==
    /\ file \in {<<>>, save_data(EmptyData)}
    /\ clock = 0
    /\ out = NoOut
    /\ addedSum = 0
    /\ pc = [p \in Callers |-> "idle"]
    /\ call = [p \in Callers |-> NoOut]
    /\ overlap = FALSE
    /\ lastSaver = 0

Next ==
    \/ \E a \in Amounts, c \in Categories, n \in Notes, now \in Later(clock) :
          add_transaction(a, c, n, now)
    \/ \E e \in AmountEntries, c \in Categories, n \in Notes, now \in Later(clock) :
          handle_add_transaction(e, c, n, now)
    \/ calculate_balance
    \/ \E c \in Categories, l \in LimitValues : set_limit(c, l)
    \/ \E c \in Categories, e \in LimitEntries : handle_set_limit(c, e)
    \/ \E rev \in BOOLEAN : generate_report("data", rev, NoDate, NoDate, <<>>)

Spec == Init /\ [][Next]_vars

-----------------------------------------------------------------------------
(* SpecReport: a ledger built by add_transaction, and reports over it *)

DateArgs == {NoDate, EmptyText, Malformed} \cup {DateText(d) : d \in 0..(MaxReportClock \div TicksPerDay)}

NextReport ==
    \/ \E a \in ReportAmounts, c \in Categories, n \in ReportNotes,
          now \in clock..MaxReportClock :
          add_transaction(a, c, n, now)
    \/ \E sb \in SortFields, rev \in BOOLEAN, c \in Categories :
          generate_report(sb, rev, NoDate, NoDate, c)
    \/ \E start \in DateArgs, endd \in DateArgs :
          generate_report("data", FALSE, start, endd, <<>>)
    \/ \E sb \in {"data", "summa"}, rev \in BOOLEAN, c \in Categories :
          handle_generate_report(sb, rev, EmptyText, EmptyText, c)

SpecReport == Init /\ [][NextReport]_vars

-----------------------------------------------------------------------------
(* SpecConc: two callers, one mutating call each; nothing is held between a  *)
(* call's load_data and its save_data, nor between the open and the write    *)
(* inside save_data                                                          *)

Other(p) == 3 - p

\* the call of caller p stops at load_data with JSONDecodeError
load_error(p, op) ==
    /\ pc' = [pc EXCEPT ![p] = "done"]
    /\ call' = [call EXCEPT ![p] = [op |-> op, status |-> "JSONDecodeError"]]
    /\ out' = [op |-> op, status |-> "JSONDecodeError"]
    /\ UNCHANGED <<file, clock, addedSum, overlap, lastSaver>>

\* add_transaction up to save_data: load_data, datetime.now(), the limit check
\* and its warning, the append to the loaded data
add_transaction_load(p, amount, category, note, now) ==
    LET data == load_data(file) IN
    /\ pc[p] = "idle"
    /\ IF load_fails(file) THEN load_error(p, "add") ELSE
       /\ Len(data.transactions) < MaxTx
       /\ pc' = [pc EXCEPT ![p] = "loaded"]
       /\ call' = [call EXCEPT ![p] =
                     [op |-> "add", status |-> "loaded", amount |-> amount,
                      category |-> category, note |-> note, now |-> now,
                      limit |-> 0, data |-> data,
                      warned |-> limit_exceeded(data, amount, category)]]
       /\ clock' = now
       /\ overlap' = (pc[Other(p)] \in {"loaded", "opened"})
       /\ UNCHANGED <<file, out, addedSum, lastSaver>>

\* set_limit up to save_data: the sign check, load_data, the assignment
set_limit_load(p, category, limit) ==
    /\ pc[p] = "idle"
    /\ IF limit < 0
       THEN /\ pc' = [pc EXCEPT ![p] = "done"]
            /\ call' = [call EXCEPT ![p] =
                          [op |-> "set_limit", status |-> "ValueError",
                           category |-> category, limit |-> limit]]
            /\ out' = [op |-> "set_limit", status |-> "ValueError",
                       category |-> category, limit |-> limit]
            /\ UNCHANGED <<file, clock, addedSum, overlap, lastSaver>>
       ELSE IF load_fails(file) THEN load_error(p, "set_limit")
       ELSE /\ pc' = [pc EXCEPT ![p] = "loaded"]
            /\ call' = [call EXCEPT ![p] =
                          [op |-> "set_limit", status |-> "loaded", amount |-> 0,
                           category |-> category, note |-> <<>>, now |-> 0,
                           limit |-> limit, data |-> load_data(file),
                           warned |-> FALSE]]
            /\ overlap' = (pc[Other(p)] \in {"loaded", "opened"})
            /\ UNCHANGED <<file, clock, out, addedSum, lastSaver>>

\* the data the call of caller p passes to save_data
to_save(c) ==
    IF c.op = "add"
    THEN appended(c.data, c.amount, c.category, c.note, c.now)
    ELSE [c.data EXCEPT !.limits = PutLimit(@, c.category, c.limit)]

\* save_data, first half: open(DATA_FILE, "w")
save_data_open(p) ==
    /\ pc[p] = "loaded"
    /\ file' = open_w
    /\ pc' = [pc EXCEPT ![p] = "opened"]
    /\ UNCHANGED <<clock, out, addedSum, call, overlap, lastSaver>>

\* save_data, second half: json.dump and the close; then the success box
save_data_write(p) ==
    LET c == call[p] IN
    /\ pc[p] = "opened"
    /\ file' = write_file(file, to_save(c))
    /\ pc' = [pc EXCEPT ![p] = "done"]
    /\ call' = [call EXCEPT ![p].status = "saved"]
    /\ out' = IF c.op = "add"
              THEN add_out(c.data, c.amount, c.category, c.note, c.now)
              ELSE [op |-> "set_limit", status |-> "ok",
                    category |-> c.category, limit |-> c.limit]
    /\ addedSum' = IF c.op = "add" THEN addedSum + c.amount ELSE addedSum
    /\ lastSaver' = p
    /\ UNCHANGED <<clock, overlap>>

NextConc ==
    \E p \in Callers :
        \/ \E a \in Amounts, c \in Categories, n \in Notes, now \in Later(clock) :
              add_transaction_load(p, a, c, n, now)
        \/ \E c \in Categories, l \in LimitValues : set_limit_load(p, c, l)
        \/ save_data_open(p)
        \/ save_data_write(p)

SpecConc == Init /\ [][NextConc]_vars

-----------------------------------------------------------------------------
(* Claims checked under Spec *)

\* the data on file before and after a step
Old == load_data(file)
New == load_data(file')

\* sum of the amounts of the first n transactions of ts that have category c
RECURSIVE CategoryTotal(_, _, _)
CategoryTotal(ts, c, n) ==
    IF n = 0 THEN 0
    ELSE CategoryTotal(ts, c, n - 1) + (IF ts[n].category = c THEN ts[n].amount ELSE 0)

\* sum of the amounts of the first n transactions of ts
RECURSIVE Total(_, _)
Total(ts, n) == IF n = 0 THEN 0 ELSE Total(ts, n - 1) + ts[n].amount

\* the step was a successful add
AddedStep == out'.op = "add" /\ out'.status = "ok"

\* C1: an add with an empty category is rejected with ValueError, whatever the
\* amount and the note, and the document on file is left as it was.
C1_EmptyCategoryRejected ==
    [][(out'.op \in {"add", "handle_add"} /\ out'.category = <<>>)
          => (out'.status = "ValueError" /\ file' = file)]_vars

\* C2: a successful add leaves the earlier transactions as they were, in order,
\* and appends exactly one entry with the given amount, category and note, typed
\* debit when amount < 0 and credit otherwise; the limits are unchanged.
C2_AppendsOneEntry ==
    [][AddedStep =>
          /\ file' # <<>>
          /\ Len(New.transactions) = Len(Old.transactions) + 1
          /\ SubSeq(New.transactions, 1, Len(Old.transactions)) = Old.transactions
          /\ LET t == New.transactions[Len(New.transactions)] IN
                /\ t.amount = out'.amount
                /\ t.category = out'.category
                /\ t.note = out'.note
                /\ t.type = (IF out'.amount < 0 THEN "spisanie" ELSE "nachislenie")
          /\ New.limits = Old.limits]_vars

C2_Witness ==
    /\ out.op = "add" /\ out.status = "ok" /\ out.amount = 0
    /\ Len(load_data(file).transactions) = 2
    /\ load_data(file).transactions[1].amount < 0
    /\ load_data(file).transactions[2].type = "nachislenie"

\* C3: the warning is shown exactly when the category has a limit and the total
\* of the transactions on file in that category plus the new amount is strictly
\* greater than it; with or without the warning the transaction is appended.
C3_LimitIsAdvisory ==
    [][(out'.op = "add") =>
          /\ out'.status = "ok"
          /\ out'.warned <=>
                (/\ out'.category \in DOMAIN Old.limits
                 /\ CategoryTotal(Old.transactions, out'.category, Len(Old.transactions))
                       + out'.amount > Old.limits[out'.category])
          /\ Len(New.transactions) = Len(Old.transactions) + 1
          /\ New.transactions[Len(New.transactions)].amount = out'.amount]_vars

C3_Witness ==
    LET ts == load_data(file).transactions IN
    /\ out.op = "add" /\ out.warned
    /\ Len(ts) = 2
    /\ ts[1].category = ts[2].category
    /\ ts[1].amount = 1 /\ ts[2].amount = 1
    /\ load_data(file).limits[ts[2].category] = 1

\* C4: from an absent or empty document, the balance is the sum of the amounts
\* of the adds that succeeded, also after set_limit, report and balance calls.
C4_BalanceIsSumOfAdds ==
    /\ Total(load_data(file).transactions, Len(load_data(file).transactions)) = addedSum
    /\ out.op = "balance" => out.value = addedSum

C4_Witness ==
    /\ out.op = "balance" /\ out.value = -2
    /\ DOMAIN load_data(file).limits # {}

\* C5: set_limit with a negative limit raises ValueError and leaves the document
\* as it was, also when the limit comes from the entry of the form, so every
\* registered limit is >= 0.
C5_NegativeLimitRejected ==
    /\ [](\A c \in DOMAIN load_data(file).limits : load_data(file).limits[c] >= 0)
    /\ [][(out'.op = "set_limit" /\ out'.limit < 0)
             => (out'.status = "ValueError" /\ file' = file)]_vars
    /\ [][(out'.op = "handle_set_limit" /\ out'.entry # <<>> /\ out'.entry[1] < 0)
             => (out'.status = "ValueError" /\ file' = file)]_vars

C5_Witness ==
    /\ out.op = "set_limit" /\ out.limit < 0 /\ out.status = "ValueError"
    /\ out.category \in DOMAIN load_data(file).limits

\* C6: set_limit with limit >= 0 succeeds and maps the category to that limit,
\* replacing an earlier value; the other limits and the transactions stay.
C6_SetLimitUpserts ==
    [][(out'.op = "set_limit" /\ out'.limit >= 0) =>
          /\ out'.status = "ok"
          /\ file' # <<>>
          /\ DOMAIN New.limits = (DOMAIN Old.limits) \cup {out'.category}
          /\ New.limits[out'.category] = out'.limit
          /\ \A c \in (DOMAIN Old.limits) \ {out'.category} : New.limits[c] = Old.limits[c]
          /\ New.transactions = Old.transactions]_vars

C6_Witness ==
    LET d == load_data(file) IN
    /\ out.op = "set_limit" /\ out.status = "ok"
    /\ d.limits[out.category] = out.limit
    /\ Cardinality(DOMAIN d.limits) = 2
    /\ d.transactions # <<>>
    /\ \A i \in 1..Len(d.transactions) : d.transactions[i].category # out.category

-----------------------------------------------------------------------------
(* Claims checked under SpecReport *)

\* the last call was a report that rendered its rows
Reported == out.op = "report" /\ out.status = "ok"

\* t is one of the rows
InRows(t, rows) == \E j \in 1..Len(rows) : rows[j] = t

\* the calendar day of a stored date
DayOf(date) == date[1]

\* the instant of a stored date, read field by field
InstantOf(date) ==
    date[1] * TicksPerDay + date[2] * MicrosPerSecond + (IF Len(date) = 3 THEN date[3] ELSE 0)

\* the field a documented sort_by value names, of a before that of b
FieldLess(sort_by, a, b) ==
    IF sort_by = "date" THEN InstantOf(a.date) < InstantOf(b.date)
    ELSE IF sort_by = "amount" THEN a.amount < b.amount
    ELSE IF sort_by = "category" THEN StrLess(a.category, b.category)
    ELSE StrLess(a.note, b.note)

\* C7: with well-formed bounds a transaction is in the report exactly when the
\* calendar day of its timestamp is >= startDate (when given) and <= endDate
\* (when given), whatever its time of day.
C7_DateFilterInclusive ==
    (Reported /\ (out.start.kind = "date" \/ out.endd.kind = "date")) =>
        LET ts == load_data(file).transactions IN
        \A i \in 1..Len(ts) :
            InRows(ts[i], out.rows) <=>
                /\ out.start.kind = "date" => DayOf(ts[i].date) >= out.start.day
                /\ out.endd.kind = "date" => DayOf(ts[i].date) <= out.endd.day
                /\ out.category # <<>> => ts[i].category = out.category

\* C8: sort_by "date", "amount", "category" or "note" orders the rows by that
\* field, ascending unless reverse is asked for.
C8_SortByDocumentedField ==
    (Reported /\ out.sort_by \in {"date", "amount", "category", "note"}) =>
        \A i \in 1..Len(out.rows) : \A j \in (i + 1)..Len(out.rows) :
            IF out.reverse
            THEN ~FieldLess(out.sort_by, out.rows[i], out.rows[j])
            ELSE ~FieldLess(out.sort_by, out.rows[j], out.rows[i])

\* C10: over a ledger built by add_transaction, a report with no bounds or
\* well-formed bounds never shows the invalid-date error and never fails
\* reading a transaction date.
C10_StoredDatesParse ==
    (out.op = "report" /\ out.start.kind \in {"none", "date"}
                       /\ out.endd.kind \in {"none", "date"})
        => out.status = "ok"

-----------------------------------------------------------------------------
(* Claims checked under SpecConc *)

\* what a completed call adds to the data it is applied to
Applied(c, data) ==
    IF c.op = "add"
    THEN [transactions |->
             data.transactions \o
                 <<[amount |-> c.amount, category |-> c.category, note |-> c.note,
                    date |-> isoformat(c.now),
                    type |-> IF c.amount < 0 THEN "spisanie" ELSE "nachislenie"]>>,
          limits |-> data.limits]
    ELSE [transactions |-> data.transactions,
          limits |-> [k \in (DOMAIN data.limits) \cup {c.category} |->
                         IF k = c.category THEN c.limit ELSE data.limits[k]]]

BothSaved == \A p \in Callers : pc[p] = "done" /\ call[p].status = "saved"

\* C9: when both calls load before either saves, both succeed and the document
\* holds the update of the last saver only; when one call runs from load to save
\* before the other loads, the document holds both updates.
C9_LostUpdate ==
    BothSaved =>
        LET l == lastSaver
            o == Other(lastSaver)
        IN  IF overlap
            THEN /\ ~load_fails(file)
                 /\ call[l].data = call[o].data
                 /\ load_data(file) = Applied(call[l], call[o].data)
                 /\ Len(load_data(file).transactions) =
                       Len(call[o].data.transactions) + (IF call[l].op = "add" THEN 1 ELSE 0)
            ELSE /\ ~load_fails(file)
                 /\ load_data(file) = Applied(call[l], Applied(call[o], call[o].data))
                 /\ Len(load_data(file).transactions) =
                       Len(call[o].data.transactions)
                          + (IF call[l].op = "add" THEN 1 ELSE 0)
                          + (IF call[o].op = "add" THEN 1 ELSE 0)

====
